---- MODULE Spec2Model ----
(***************************************************************************)
(* Model of snowmigrate's MigrationEngine                                  *)
(* (src/src/snowmigrate/services/migration_engine.py): the job registry,   *)
(* the start / pause / resume / cancel handlers, the background            *)
(* _run_migration task of every admitted start and the child process it    *)
(* supervises.                                                             *)
(*                                                                         *)
(* Spec        every handler is one atomic step (a coroutine without an    *)
(*             await runs to completion on its event loop);                *)
(*             _run_migration is cut at its await points. No time passes   *)
(*             between steps: the clock moves only while cancel_migration  *)
(*             blocks in process.wait, so a timestamp tells set from unset.*)
(*             The child writes nothing to stdout and only well-formed     *)
(*             error events to stderr.                                     *)
(* SpecFair    Spec with weak fairness on the steps of _run_migration: a   *)
(*             scheduled task is run, a child process exits.               *)
(* SpecThreads two start_migration calls for different jobs, each on its   *)
(*             own worker thread (screens/dashboard.py, @work(thread=True))*)
(*             and interleaved statement by statement.                     *)
(* SpecStreams one job, started once, and the lines its child writes to    *)
(*             stdout and stderr (events, and lines that are not events):  *)
(*             the snapshots _parse_progress makes of them.                *)
(* SpecSubscribers  one job, started once, the snapshots put on its queue  *)
(*             and the subscribe_progress generators that take them.       *)
(* SpecSubscribersFair  SpecSubscribers where tasks run, children exit,    *)
(*             consumers keep iterating and the wait_for timeout fires.    *)
(* SpecClock   one job while the clock moves: started, paused, resumed,    *)
(*             and the rate and ETA made of the row counts of its child.   *)
(* SpecCalls   a new engine: the staging listing with its cache, and the   *)
(*             argument list and environment start_migration hands to the  *)
(*             child, for connections and selections drawn at the start.   *)
(* SpecApp     the application: the engine the dashboard lists from        *)
(*             (app.py) and the engine the configuration modal makes for   *)
(*             the job it creates and starts (screens/migration_config.py).*)
(***************************************************************************)
EXTENDS Integers, Sequences, FiniteSets, TLC

\* ---------------------------------------------------------------- bounds
MaxJobs == 2        \* jobs ever created
MaxTasks == 2       \* _run_migration tasks that exist at the same time
MaxTables == 1      \* table selections of a job
MaxRows == 2        \* row counts the child reports
MaxLines == 2       \* stdout lines that are applied to a job
MaxClock == 2       \* seconds that pass

\* ------------------------------------------------------------ vocabulary
QUEUED == "queued"
RUNNING == "running"
PAUSED == "paused"
COMPLETED == "completed"
FAILED == "failed"
CANCELLED == "cancelled"

MigrationStatus == {QUEUED, RUNNING, PAUSED, COMPLETED, FAILED, CANCELLED}

JobIds == 1..MaxJobs

\* SNOWMIGRATE_MAX_CONCURRENT: every ceiling of MaxJobs or more admits alike
Ceilings == 0..MaxJobs

NoTime == -1        \* started_at / completed_at is None
NoPid == 0          \* cli_process_id is None, _processes.get(id) is None

\* the two stream readers of a run, gathered on line 289
Readers == {"stdout", "stderr"}

\* erred: an error event was read in this run; readers: the readers still going
NoTask == [job |-> 0, pc |-> "none", code |-> 0, sig |-> {}, erred |-> FALSE,
           readers |-> {}]

\* migration.error: None, the message of a stderr error event, the
\* synthesized "CLI exited with code N", "CLI tool not found at ...", str(e)
NoError == "none"
ErrStderr == "stderr"
ErrExitCode == "exit_code"
ErrNotFound == "cli_not_found"
ErrException == "exception"

\* return codes of the child: 0, an error code, and -9 for a killed child
ExitCodes == {0, 1}
KilledCode == -9

\* cancel_migration: process.wait(timeout=5)
GracePeriod == 5

VARIABLES
    max_concurrent_migrations,  \* self._config.performance.max_concurrent_migrations
    migrations,                 \* self._migrations: job id -> Migration
    processes,                  \* self._processes: job id -> slot of the Popen, NoPid if absent
    tasks,                      \* the _run_migration tasks and their child processes
    now,                        \* datetime.now()
    result,                     \* what the request served by the last step returned or raised
    threads,                    \* SpecThreads: the worker threads inside start_migration
    pre,                        \* SpecThreads: the registry when the two calls began
    progress,                   \* migration.progress of every job
    queues,                     \* self._progress_queues: job id -> snapshots not yet taken
    published,                  \* snapshots put on the queue of every job so far
    subscribers,                \* the subscribe_progress generators
    staging_areas,              \* self._staging_areas
    call,                       \* SpecCalls: the arguments and the outcome of a call
    dashboard                   \* SpecApp: app.migration_engine and the rows shown

vars == <<max_concurrent_migrations, migrations, processes, tasks, now, result,
          threads, pre, progress, queues, published, subscribers, staging_areas,
          call, dashboard>>

\* what the stdout readers and the subscribers work on
streams == <<progress, queues, published, subscribers>>

\* what the staging listing, the command line of a start and the dashboard
\* work on
calls == <<staging_areas, call, dashboard>>

NoThreads == <<>>

\* ------------------------------------------------------------- snapshots
NoTable == "none"   \* current_table is None
NoEta == -1000      \* eta_seconds is None (no estimate comes to this number)
Absent == -1000     \* the key is not in the event (no count the child writes)

\* rows_per_second, a float, kept as the quotient rows / secs
Rate(rows, secs) == [rows |-> rows, secs |-> secs]

NewProgress_no_total(n) ==
    [total_tables |-> 0, completed_tables |-> 0, current_table |-> NoTable,
     current_table_progress |-> 0, total_rows |-> 0, migrated_rows |-> 0,
     rows_per_second |-> Rate(0, 1), eta_seconds |-> NoEta]

\* MigrationProgress(total_tables=n)
NewProgress(n) ==
    [total_tables |-> n, completed_tables |-> 0, current_table |-> NoTable,
     current_table_progress |-> 0, total_rows |-> 0, migrated_rows |-> 0,
     rows_per_second |-> Rate(0, 1), eta_seconds |-> NoEta]

\* a float (x / y) * 100, kept as the pair
Percent(x, y) == [x |-> x, y |-> y]

\* MigrationProgress.percentage, models/migration.py lines 47-54
percentage(p) ==
    IF p.total_rows = 0
    THEN IF p.total_tables = 0
         THEN Percent(0, 1)
         ELSE Percent(p.completed_tables, p.total_tables)
    ELSE Percent(p.migrated_rows, p.total_rows)

\* the jobs of Spec, SpecFair and SpecThreads select one table each
LifecycleTables == {1}

\* the subscribe_progress generators of the run
Subscribers == {1, 2}

\* since: the snapshots of the job published before the generator started
NoSubscription ==
    [job |-> 0, pc |-> "idle", received |-> <<>>, since |-> 0, early |-> FALSE]

\* -------------------------------------------------------------- registry
NewMigration ==
    [status |-> QUEUED, started_at |-> NoTime, completed_at |-> NoTime,
     error |-> NoError, cli_process_id |-> NoPid]

Known(j) == j \in DOMAIN migrations

StatusOf(j) == migrations[j].status

\* get_migration: self._migrations.get(migration_id), None for an unknown id
NoMigration == [status |-> "none"]

get_migration(j) == IF Known(j) THEN migrations[j] ELSE NoMigration

\* retrying a failed job is let through
StartableStatuses_retry_failed == {QUEUED, PAUSED, FAILED}

StartableStatuses == {QUEUED, PAUSED}

\* only the running jobs are counted
ActiveStatuses_running_only == {RUNNING}

ActiveStatuses == {RUNNING, QUEUED, PAUSED}

\* the jobs of list(self._migrations.values()), by id
list_migrations(migs) == DOMAIN migs

list_active_migrations(migs) ==
    {j \in DOMAIN migs : migs[j].status \in ActiveStatuses}

Outcome(op, j, out) == [op |-> op, id |-> j, out |-> out]

NoResult == Outcome("none", 0, "none")

\* ---------------------------------------------------------------- tasks
Slots == DOMAIN tasks

FreeSlots == {s \in Slots : tasks[s] = NoTask}

LowestFree == CHOOSE s \in FreeSlots : \A t \in FreeSlots : s <= t

\* "abandoned": the run ended on an exception of a reader, the child lives on
Alive(s) == tasks[s].pc \in {"reading", "abandoned"}

AliveProcesses(j) == {s \in Slots : tasks[s].job = j /\ Alive(s)}

\* asyncio.create_task(self._run_migration(migration_id, args, env))
create_task(tsk, s, j) ==
    [tsk EXCEPT ![s] = [job |-> j, pc |-> "created", code |-> 0, sig |-> {},
                        erred |-> FALSE, readers |-> Readers]]

\* ---------------------------------------------------- list_staging_areas
S3 == "s3"
ADLS == "adls"
GCS == "gcs"
INTERNAL == "internal"
StagingType == {S3, ADLS, GCS, INTERNAL}

StagingArea(id, name, type, path, available) ==
    [id |-> id, name |-> name, type |-> type, path |-> path, available |-> available]

\* self._staging_areas is None
NoStagingAreas == [cached |-> FALSE, areas |-> <<>>]

\* lines 51-66
DefaultStagingAreas_s3_only ==
    <<StagingArea("s3-default", "Default S3 Staging", S3, "s3://snowmigrate-staging/",
                  TRUE)>>

DefaultStagingAreas ==
    <<StagingArea("s3-default", "Default S3 Staging", S3, "s3://snowmigrate-staging/",
                  TRUE),
      StagingArea("internal-default", "Snowflake Internal Stage", INTERNAL,
                  "@MIGRATION_STAGE", TRUE)>>

\* the members of "staging_areas" in the output: a staging area, one that
\* says it is unavailable, one of an unknown type, one without an id
Entries ==
    {[id |-> "lake", name |-> "Lake", type |-> "gcs", path |-> "gs://lake/"],
     [id |-> "cold", name |-> "Cold", type |-> "adls", path |-> "abfs://cold/",
      available |-> FALSE],
     [id |-> "ftp", name |-> "Drop", type |-> "ftp", path |-> "ftp://drop/"],
     [name |-> "Nameless", type |-> "s3", path |-> "s3://x/"]}

\* what stdout of `staging list --format json` holds: no JSON, JSON that is
\* no object, an object without "staging_areas", an object with the list
Stdouts ==
    {[json |-> "invalid"], [json |-> "array"], [json |-> "object"]}
    \cup {[json |-> "object", staging_areas |-> <<>>]}
    \cup {[json |-> "object", staging_areas |-> <<e>>] : e \in Entries}
    \cup {[json |-> "object", staging_areas |-> <<e, f>>] :
             e \in Entries, f \in {x \in Entries : "available" \in DOMAIN x}}

\* _run_cli_command, lines 218-230: the executable is missing, it exits with
\* an error, or it exits with 0 and leaves its output
CliRuns ==
    {[found |-> FALSE, returncode |-> 0, stdout |-> [json |-> "invalid"]],
     [found |-> TRUE, returncode |-> 1, stdout |-> [json |-> "invalid"]]}
    \cup [found : {TRUE}, returncode : {0}, stdout : Stdouts]

\* lines 40-49: StagingArea(id=s["id"], ..., available=s.get("available", True))
Valid(s) ==
    /\ {"id", "name", "type", "path"} \subseteq DOMAIN s
    /\ s.type \in StagingType

Parsed(s) ==
    StagingArea(s.id, s.name, s.type, s.path,
                IF "available" \in DOMAIN s THEN s.available ELSE TRUE)

\* data.get("staging_areas", [])
Listed(data) == IF "staging_areas" \in DOMAIN data THEN data.staging_areas ELSE <<>>

\* lines 37-50: what raises inside the try block
Raises(run) ==
    \/ ~run.found
    \/ run.returncode # 0
    \/ run.stdout.json # "object"
    \/ \E i \in DOMAIN Listed(run.stdout) : ~Valid(Listed(run.stdout)[i])

\* lines 33-69
list_staging_areas(run) ==
    /\ staging_areas' =
          IF staging_areas.cached THEN staging_areas
          ELSE IF Raises(run) THEN [cached |-> TRUE, areas |-> DefaultStagingAreas]
          ELSE [cached |-> TRUE,
                areas |-> [i \in DOMAIN Listed(run.stdout) |->
                              Parsed(Listed(run.stdout)[i])]]
    /\ call' = [call EXCEPT !.op = "list_staging_areas",
                            !.cli = run,
                            !.cached = staging_areas.cached,
                            !.areas = staging_areas'.areas]
    /\ UNCHANGED <<max_concurrent_migrations, migrations, processes, tasks, now,
                   result, threads, pre, streams, dashboard>>

\* ------------------------------------------------- the command of a start
\* what a connection and a configuration may hold. A password is a string
\* that occurs in no other field.
Passwords == {"pw-one", "pw-two"}

Ports == {22, 5432}

SourceConnections ==
    [type : {"postgres"}, host : {"db.local"}, port : Ports, database : {"sales"},
     username : {"etl", "ops"}, password : Passwords]

SnowflakeConnections ==
    [account : {"acme"}, warehouse : {"WH"}, database : {"DW"},
     schema_name : {"PUBLIC"}, username : {"loader"}, password : Passwords]

NoSchema == ""      \* target_schema is None (or empty: `or` takes the other)

TableSelection(schema_name, table_name) ==
    [schema_name |-> schema_name, table_name |-> table_name]

TableLists ==
    {<<>>, <<TableSelection("public", "orders")>>,
     <<TableSelection("public", "orders"), TableSelection("crm", "leads")>>}

Selections ==
    [tables : TableLists, target_schema : {NoSchema, "STAGE"},
     staging_area_id : {"s3-default"}]

\* os.environ when the task runs
Environs ==
    {[PATH |-> "/usr/bin"],
     [PATH |-> "/usr/bin", SNOWMIGRATE_SOURCE_PASSWORD |-> "stale"]}

Digit(d) ==
    CASE d = 0 -> "0" [] d = 1 -> "1" [] d = 2 -> "2" [] d = 3 -> "3" [] d = 4 -> "4"
      [] d = 5 -> "5" [] d = 6 -> "6" [] d = 7 -> "7" [] d = 8 -> "8" [] d = 9 -> "9"

\* str(n) of a positive int
RECURSIVE str(_)
str(n) == IF n < 10 THEN Digit(n) ELSE str(n \div 10) \o Digit(n % 10)

full_name(t) == t.schema_name \o "." \o t.table_name

\* ",".join(t.full_name for t in tables)
RECURSIVE tables_str(_)
tables_str(tables) ==
    IF tables = <<>> THEN ""
    ELSE IF Len(tables) = 1 THEN full_name(tables[1])
    ELSE full_name(tables[1]) \o "," \o tables_str(Tail(tables))

start_args_with_password(source_conn, target_conn, migration) ==
    <<"migrate", "--source-user", source_conn.username,
      "--source-password", source_conn.password>>

\* lines 119-134
start_args(source_conn, target_conn, migration) ==
    <<"migrate",
      "--source-type", source_conn.type,
      "--source-host", source_conn.host,
      "--source-port", str(source_conn.port),
      "--source-database", source_conn.database,
      "--source-user", source_conn.username,
      "--tables", tables_str(migration.tables),
      "--target-account", target_conn.account,
      "--target-warehouse", target_conn.warehouse,
      "--target-database", target_conn.database,
      "--target-schema", IF migration.target_schema # NoSchema
                         THEN migration.target_schema ELSE target_conn.schema_name,
      "--target-user", target_conn.username,
      "--staging-id", migration.staging_area_id,
      "--progress-format", "json">>

\* lines 137-140
start_env(source_conn, target_conn) ==
    [SNOWMIGRATE_SOURCE_PASSWORD |-> source_conn.password,
     SNOWMIGRATE_TARGET_PASSWORD |-> target_conn.password]

\* lines 250-253: os.environ.copy(), then update(env)
process_env(environ, env) ==
    [k \in DOMAIN environ \cup DOMAIN env |->
        IF k \in DOMAIN env THEN env[k] ELSE environ[k]]

\* a call that was not made yet, and its arguments
Calls ==
    [op : {"none"}, source_conn : SourceConnections, target_conn : SnowflakeConnections,
     migration : Selections, environ : Environs, args : {<<>>}, env : {<<>>},
     cli : {<<>>}, cached : {FALSE}, areas : {<<>>}]

NoCall == CHOOSE c \in Calls : TRUE

\* lines 116-142 and 250-262: what create_subprocess_exec is given
create_subprocess_exec ==
    /\ call.args = <<>>
    /\ call' = [call EXCEPT
                   !.op = "create_subprocess_exec",
                   !.args = start_args(call.source_conn, call.target_conn,
                                       call.migration),
                   !.env = process_env(call.environ,
                                       start_env(call.source_conn, call.target_conn))]
    /\ UNCHANGED <<max_concurrent_migrations, migrations, processes, tasks, now,
                   result, threads, pre, streams, staging_areas, dashboard>>

\* ---------------------------------------------------------- the dashboard
\* app.py line 32: the engine the application makes for its dashboard
\* (migrations: its self._migrations), and the rows the dashboard shows.
\* The engine of `migrations` and `tasks` is the one that creates and starts
\* a job: MigrationConfigModal._create_and_start_migration makes an engine
\* of its own for that (screens/migration_config.py line 196); nothing
\* calls create_migration on the engine of the application.
NewDashboard == [migrations |-> <<>>, rows |-> {}]

\* screens/dashboard.py lines 168-198: the rows are the jobs of
\* self.migration_engine.list_migrations()
refresh_dashboard ==
    /\ dashboard' = [dashboard EXCEPT !.rows = list_migrations(dashboard.migrations)]
    /\ result' = Outcome("refresh", 0,
                         IF list_migrations(dashboard.migrations) = {}
                         THEN "No migrations" ELSE "rows")
    /\ UNCHANGED <<max_concurrent_migrations, migrations, processes, tasks, now,
                   threads, pre, streams, staging_areas, call>>

\* ------------------------------------------------------------------ Init
Init ==
    /\ max_concurrent_migrations \in Ceilings
    /\ migrations = <<>>
    /\ processes = [j \in JobIds |-> NoPid]
    /\ tasks = [s \in 1..MaxTasks |-> NoTask]
    /\ now = 0
    /\ result = NoResult
    /\ threads = NoThreads
    /\ pre = <<>>
    /\ progress = <<>>
    /\ queues = <<>>
    /\ published = <<>>
    /\ subscribers = [u \in Subscribers |-> NoSubscription]
    /\ staging_areas = NoStagingAreas
    /\ dashboard = NewDashboard
    /\ call = NoCall

\* ------------------------------------------------------------- handlers
\* n: len(config.tables)
create_migration(n) ==
    /\ Len(migrations) < MaxJobs
    /\ migrations' = Append(migrations, NewMigration)
    /\ progress' = Append(progress, NewProgress(n))
    /\ queues' = Append(queues, <<>>)
    /\ published' = Append(published, 0)
    /\ result' = Outcome("create", Len(migrations) + 1, "ok")
    /\ UNCHANGED <<calls, max_concurrent_migrations, processes, tasks, now, threads, pre,
                   subscribers>>

\* start_migration, lines 88-114: what one uninterrupted call makes of the
\* registry, what it returns or raises, and whether it reaches create_task
\* the job being started is left out of the count
LimitExceeded_without_self(migs) ==
    Cardinality(list_active_migrations(migs)) - 1 > max_concurrent_migrations

LimitExceeded(migs) ==
    Cardinality(list_active_migrations(migs)) > max_concurrent_migrations

MarkRunning(migs, j) ==
    [migs EXCEPT ![j].status = RUNNING, ![j].started_at = now]

\* the status set on line 105 is not taken back
Reject_keeps_running(migs, j) == migs

\* line 111
Reject(migs, j) == [migs EXCEPT ![j].status = QUEUED]

\* the job is marked running before its connections are looked up
start_result_marks_first(migs, j, found) ==
    IF j \notin DOMAIN migs
    THEN [migs |-> migs, out |-> "KeyError", spawn |-> FALSE]
    ELSE IF migs[j].status \notin StartableStatuses
    THEN [migs |-> migs, out |-> "InvalidState", spawn |-> FALSE]
    ELSE IF ~found
    THEN [migs |-> MarkRunning(migs, j), out |-> "ConnectionNotFound", spawn |-> FALSE]
    ELSE IF LimitExceeded(MarkRunning(migs, j))
    THEN [migs |-> Reject(MarkRunning(migs, j), j),
          out |-> "LimitExceeded", spawn |-> FALSE]
    ELSE [migs |-> MarkRunning(migs, j), out |-> "ok", spawn |-> TRUE]

start_result(migs, j, found) ==
    IF j \notin DOMAIN migs
    THEN [migs |-> migs, out |-> "KeyError", spawn |-> FALSE]
    ELSE IF migs[j].status \notin StartableStatuses
    THEN [migs |-> migs, out |-> "InvalidState", spawn |-> FALSE]
    ELSE IF ~found
    THEN [migs |-> migs, out |-> "ConnectionNotFound", spawn |-> FALSE]
    ELSE IF LimitExceeded(MarkRunning(migs, j))
    THEN [migs |-> Reject(MarkRunning(migs, j), j),
          out |-> "LimitExceeded", spawn |-> FALSE]
    ELSE [migs |-> MarkRunning(migs, j), out |-> "ok", spawn |-> TRUE]

\* found: the connection manager knows both connection ids of the job
start_migration(j, found) ==
    LET r == start_result(migrations, j, found) IN
    /\ r.spawn => FreeSlots # {}
    /\ migrations' = r.migs
    /\ tasks' = IF r.spawn THEN create_task(tasks, LowestFree, j) ELSE tasks
    /\ result' = Outcome("start", j, r.out)
    /\ UNCHANGED <<calls, max_concurrent_migrations, processes, now, threads, pre, streams>>

resume_migration(j, found) == start_migration(j, found)

\* process.send_signal / terminate / kill on the Popen registered for the job
Signal(tsk, s, sig) ==
    IF s = NoPid THEN tsk ELSE [tsk EXCEPT ![s].sig = @ \cup {sig}]

\* a queued job may be paused too
PausableStatuses_and_queued == {RUNNING, QUEUED}

\* line 150
PausableStatuses == {RUNNING}

pause_migration(j) ==
    /\ IF ~Known(j)
       THEN /\ result' = Outcome("pause", j, "KeyError")
            /\ UNCHANGED <<migrations, tasks>>
       ELSE IF migrations[j].status \notin PausableStatuses
       THEN /\ result' = Outcome("pause", j, "InvalidState")
            /\ UNCHANGED <<migrations, tasks>>
       ELSE /\ tasks' = Signal(tasks, processes[j], "SIGINT")
            /\ migrations' = [migrations EXCEPT ![j].status = PAUSED]
            /\ result' = Outcome("pause", j, "ok")
    /\ UNCHANGED <<calls, max_concurrent_migrations, processes, now, threads, pre, streams>>

\* process.terminate(); process.wait(timeout=5); on TimeoutExpired process.kill().
\* exited: the return code with which the child left within the grace period,
\* or KilledCode when the wait timed out and the child was killed
Terminate(tsk, s, exited) ==
    IF s = NoPid THEN tsk
    ELSE IF tsk[s].pc # "reading" THEN Signal(tsk, s, "SIGTERM")
    ELSE [tsk EXCEPT ![s].sig = @ \cup (IF exited = KilledCode
                                         THEN {"SIGTERM", "SIGKILL"}
                                         ELSE {"SIGTERM"}),
                     ![s].pc = "exited",
                     ![s].code = exited]

\* what process.wait(timeout=5) can do for the job: <<return code, seconds waited>>
CancelInputs(j) ==
    IF processes[j] # NoPid /\ tasks[processes[j]].pc = "reading"
    THEN {<<c, w>> : c \in ExitCodes, w \in 0..GracePeriod}
         \cup {<<KilledCode, GracePeriod>>}
    ELSE {<<KilledCode, 0>>}

\* the completion timestamp is forgotten
Cancelled_no_timestamp(m, t) == [m EXCEPT !.status = CANCELLED]

\* lines 177-178
Cancelled(m, t) == [m EXCEPT !.status = CANCELLED, !.completed_at = t]

cancel_migration(j, exited, waited) ==
    /\ IF ~Known(j)
       THEN /\ result' = Outcome("cancel", j, "KeyError")
            /\ UNCHANGED <<migrations, tasks, now>>
       ELSE /\ <<exited, waited>> \in CancelInputs(j)
            /\ tasks' = Terminate(tasks, processes[j], exited)
            /\ now' = now + waited
            /\ migrations' = [migrations EXCEPT ![j] = Cancelled(@, now')]
            /\ result' = Outcome("cancel", j, "ok")
    /\ UNCHANGED <<calls, max_concurrent_migrations, processes, threads, pre, streams>>

\* ------------------------------------------------------- _run_migration
\* lines 242-263: the task starts and spawns the child. how: "spawned",
\* or the exception create_subprocess_exec raised
SpawnOutcomes == {"spawned", "FileNotFoundError", "Exception"}

\* the finally clause sets no completion timestamp
Finally_no_timestamp(migs, j) == migs

\* lines 305-306
Finally(migs, j) == [migs EXCEPT ![j].completed_at = now]

Unregister(procs, j) == [procs EXCEPT ![j] = NoPid]

\* line 263 records the pid on the job; nothing stores the process in
\* self._processes
Register(procs, j, s) == procs

Spawn(s, how) ==
    LET j == tasks[s].job IN
    /\ tasks[s].pc = "created"
    /\ IF how = "spawned"
       THEN /\ tasks' = [tasks EXCEPT ![s].pc = "reading"]
            /\ migrations' = [migrations EXCEPT ![j].cli_process_id = s]
            /\ processes' = Register(processes, j, s)
       ELSE /\ tasks' = [tasks EXCEPT ![s] = NoTask]
            /\ migrations' = Finally([migrations EXCEPT
                                 ![j].status = FAILED,
                                 ![j].error = IF how = "FileNotFoundError"
                                              THEN ErrNotFound ELSE ErrException], j)
            /\ processes' = Unregister(processes, j)
    /\ result' = NoResult
    /\ UNCHANGED <<calls, max_concurrent_migrations, now, threads, pre, streams>>

\* the error event ends the job
ErrorEvent_fails_job(m, msg) == [m EXCEPT !.error = msg, !.status = FAILED]

\* the "message" of an error event: a text, or null or "", which leave the
\* job with no error message (`not migration.error`)
StderrMessages == {ErrStderr, NoError}

\* line 285: migration.error = data.get("message", "Unknown error")
ErrorEvent(m, msg) == [m EXCEPT !.error = msg]

\* lines 278-287: read_errors decodes an error event from stderr
ReadError(s, msg) ==
    LET j == tasks[s].job IN
    /\ tasks[s].pc \in {"reading", "exited", "abandoned"}
    /\ "stderr" \in tasks[s].readers
    /\ ~tasks[s].erred \/ migrations[j].error # msg
    /\ migrations' = [migrations EXCEPT ![j] = ErrorEvent(@, msg)]
    /\ tasks' = [tasks EXCEPT ![s].erred = TRUE]
    /\ result' = NoResult
    /\ UNCHANGED <<calls, max_concurrent_migrations, processes, now, threads, pre, streams>>

\* ---------------------------------------------------------- stdout lines
\* the object decoded from a line of stdout: data.get("type", ""),
\* data.get("table"), data.get("rows_migrated"), data.get("total_rows"),
\* data.get("percentage", 0)
\* the counts are whatever integers the child writes, one below zero included
RowInputs == {Absent} \cup -1..MaxRows

TableInputs == {NoTable, "t1"}

Percentages == {0, 50}

ProgressEvents ==
    [type : {"progress"}, table : TableInputs, rows_migrated : RowInputs,
     total_rows : RowInputs, percentage : Percentages]

Bare(type) ==
    [type |-> type, table |-> NoTable, rows_migrated |-> Absent,
     total_rows |-> Absent, percentage |-> 0]

\* "other": any type that is none of the three, the missing type included
Events == ProgressEvents \cup {Bare("table_complete"), Bare("complete"), Bare("other")}

\* data.get(key, default)
Get(v, default) == IF v = Absent THEN default ELSE v

\* int(x / y) for y > 0: towards zero
Trunc(x, y) == IF x >= 0 THEN x \div y ELSE -((-x) \div y)

\* lines 329-335, for migrated_rows > 0 and elapsed > 0
Estimate(p, elapsed) ==
    [p EXCEPT !.rows_per_second = Rate(p.migrated_rows, elapsed),
              !.eta_seconds = Trunc((p.total_rows - p.migrated_rows) * elapsed,
                                    p.migrated_rows)]

\* table_complete leaves the current table named
Apply_keeps_current_table(data, p) ==
    CASE data.type = "progress" ->
             [p EXCEPT !.current_table = data.table,
                       !.migrated_rows = Get(data.rows_migrated, @),
                       !.total_rows = Get(data.total_rows, @),
                       !.current_table_progress = data.percentage]
      [] data.type = "table_complete" ->
             [p EXCEPT !.completed_tables = @ + 1]
      [] data.type = "complete" ->
             [p EXCEPT !.completed_tables = p.total_tables,
                       !.migrated_rows = p.total_rows]
      [] OTHER -> p

\* lines 313-327
Apply(data, p) ==
    CASE data.type = "progress" ->
             [p EXCEPT !.current_table = data.table,
                       !.migrated_rows = Get(data.rows_migrated, @),
                       !.total_rows = Get(data.total_rows, @),
                       !.current_table_progress = data.percentage]
      [] data.type = "table_complete" ->
             [p EXCEPT !.completed_tables = @ + 1, !.current_table = NoTable]
      [] data.type = "complete" ->
             [p EXCEPT !.completed_tables = p.total_tables,
                       !.migrated_rows = p.total_rows]
      [] OTHER -> p

parse_progress(data, m, p) ==
    LET q == Apply(data, p) IN
    IF q.migrated_rows > 0 /\ m.started_at # NoTime /\ now - m.started_at > 0
    THEN Estimate(q, now - m.started_at)
    ELSE q

\* lines 268-274: read_progress decodes an object, stores the snapshot made
\* of it and puts it on the job's queue. A queued snapshot is named by its
\* publication number.
ReadProgress(s, data) ==
    LET j == tasks[s].job IN
    /\ tasks[s].pc \in {"reading", "exited", "abandoned"}
    /\ "stdout" \in tasks[s].readers
    /\ published[j] < MaxLines
    /\ progress' = [progress EXCEPT ![j] = parse_progress(data, migrations[j], @)]
    /\ queues' = [queues EXCEPT ![j] = Append(@, published[j] + 1)]
    /\ published' = [published EXCEPT ![j] = @ + 1]
    /\ result' = NoResult
    /\ UNCHANGED <<calls, max_concurrent_migrations, migrations, processes, tasks, now,
                   threads, pre, subscribers>>

\* a line that is no event: not JSON at all (JSONDecodeError, caught on lines
\* 275 and 286), or JSON that is no object (data.get raises AttributeError,
\* which leaves the reader, the gather of line 289 and the try block)
BadLines == {"not_json", "not_object"}

\* lines 302-306, and what is left behind: the other reader and the child
Abandon(tsk, s, r) ==
    IF tsk[s].pc = "reading"
    THEN [tsk EXCEPT ![s].pc = "abandoned", ![s].readers = @ \ {r}]
    ELSE [tsk EXCEPT ![s] = NoTask]

ReadBadLine(s, r, kind) ==
    LET j == tasks[s].job IN
    /\ tasks[s].pc \in {"reading", "exited", "abandoned"}
    /\ r \in tasks[s].readers
    /\ IF kind = "not_json"
       THEN UNCHANGED <<migrations, processes, tasks>>
       ELSE IF tasks[s].pc = "abandoned"
       THEN /\ tasks' = [tasks EXCEPT ![s].readers = @ \ {r}]
            /\ UNCHANGED <<migrations, processes>>
       ELSE /\ migrations' = Finally([migrations EXCEPT ![j].status = FAILED,
                                                        ![j].error = ErrException], j)
            /\ processes' = Unregister(processes, j)
            /\ tasks' = Abandon(tasks, s, r)
    /\ result' = NoResult
    /\ UNCHANGED <<calls, max_concurrent_migrations, now, threads, pre, streams>>

\* the child closes its streams and exits with return code c
ProcessExit(s, c) ==
    /\ tasks[s].pc \in {"reading", "abandoned"}
    /\ tasks' = IF tasks[s].pc = "abandoned"
                THEN [tasks EXCEPT ![s] = NoTask]
                ELSE [tasks EXCEPT ![s].pc = "exited", ![s].code = c]
    /\ result' = NoResult
    /\ UNCHANGED <<calls, max_concurrent_migrations, migrations, processes, now, threads,
                   pre, streams>>

\* the return code is not looked at
ExitStatus_keeps_status(m, c) == m

\* lines 289-307: both readers saw EOF, proc.wait() returned
ExitStatus(m, c) ==
    IF c = 0 THEN [m EXCEPT !.status = COMPLETED]
    ELSE [m EXCEPT !.status = FAILED,
                   !.error = IF m.error = NoError THEN ErrExitCode ELSE m.error]

Finalize(s) ==
    LET j == tasks[s].job IN
    /\ tasks[s].pc = "exited"
    /\ migrations' = Finally([migrations EXCEPT ![j] = ExitStatus(@, tasks[s].code)], j)
    /\ processes' = Unregister(processes, j)
    /\ tasks' = [tasks EXCEPT ![s] = NoTask]
    /\ result' = NoResult
    /\ UNCHANGED <<calls, max_concurrent_migrations, now, threads, pre, streams>>

\* ------------------------------------------------------ subscribe_progress
\* lines 197-199: the generator looks up the queue of the job
subscribe_progress(u, j) ==
    /\ subscribers[u].pc = "idle"
    /\ subscribers' = [subscribers EXCEPT
                           ![u].job = j,
                           ![u].pc = IF Known(j) THEN "waiting" ELSE "ended",
                           ![u].since = IF Known(j) THEN published[j] ELSE 0,
                           ![u].early = Known(j) /\ migrations[j].started_at = NoTime]
    /\ result' = NoResult
    /\ UNCHANGED <<calls, max_concurrent_migrations, migrations, processes, tasks, now,
                   threads, pre, progress, queues, published>>

\* lines 203-204: queue.get() hands the oldest snapshot to this generator
Take(u) ==
    LET j == subscribers[u].job IN
    /\ subscribers[u].pc = "waiting"
    /\ queues[j] # <<>>
    /\ subscribers' = [subscribers EXCEPT ![u].received = Append(@, Head(queues[j]))]
    /\ queues' = [queues EXCEPT ![j] = Tail(@)]
    /\ result' = NoResult
    /\ UNCHANGED <<calls, max_concurrent_migrations, migrations, processes, tasks, now,
                   threads, pre, progress, published>>

\* where a waiting subscriber goes on waiting
WaitingStatuses_running_only == {RUNNING}

WaitingStatuses == {RUNNING, QUEUED}

\* lines 205-211: nothing came for a second; the generator ends unless the
\* job is running or queued (and waits again if it is)
Timeout(u) ==
    LET j == subscribers[u].job IN
    /\ subscribers[u].pc = "waiting"
    /\ queues[j] = <<>>
    /\ migrations[j].status \notin WaitingStatuses
    /\ subscribers' = [subscribers EXCEPT ![u].pc = "ended"]
    /\ result' = NoResult
    /\ UNCHANGED <<calls, max_concurrent_migrations, migrations, processes, tasks, now,
                   threads, pre, progress, queues, published>>

\* ------------------------------------------------- start_migration, threaded
\* DashboardPane._resume_migration runs on a worker thread of its own
\* (@work(thread=True)): two calls for different jobs interleave between
\* statements. A thread holds the locals of its call.
Threads == {1, 2}

Thread(j, found) ==
    [job |-> j, found |-> found, pc |-> "lookup", active_count |-> 0, out |-> "none"]

Raise(t, out) == [threads EXCEPT ![t].pc = "done", ![t].out = out]

Goto(t, pc) == [threads EXCEPT ![t].pc = pc]

\* two start requests arrive together; room is made for the tasks they create
Begin(a, b, fa, fb) ==
    /\ threads = NoThreads
    /\ a # b
    /\ threads' = [t \in Threads |-> IF t = 1 THEN Thread(a, fa) ELSE Thread(b, fb)]
    /\ pre' = migrations
    /\ tasks' = [s \in 1..(MaxTasks + 2) |-> IF s \in Slots THEN tasks[s] ELSE NoTask]
    /\ result' = NoResult
    /\ UNCHANGED <<calls, max_concurrent_migrations, migrations, processes, now, streams>>

\* lines 88-93
T_lookup(t) ==
    /\ threads # NoThreads /\ threads[t].pc = "lookup"
    /\ threads' = IF ~Known(threads[t].job) THEN Raise(t, "KeyError")
                  ELSE IF migrations[threads[t].job].status \notin StartableStatuses
                  THEN Raise(t, "InvalidState")
                  ELSE Goto(t, "connections")
    /\ UNCHANGED <<calls, max_concurrent_migrations, migrations, processes, tasks, now,
                   result, pre, streams>>

\* lines 95-103
T_connections(t) ==
    /\ threads # NoThreads /\ threads[t].pc = "connections"
    /\ threads' = IF ~threads[t].found THEN Raise(t, "ConnectionNotFound")
                  ELSE Goto(t, "mark")
    /\ UNCHANGED <<calls, max_concurrent_migrations, migrations, processes, tasks, now,
                   result, pre, streams>>

\* lines 105-106
T_mark(t) ==
    /\ threads # NoThreads /\ threads[t].pc = "mark"
    /\ migrations' = MarkRunning(migrations, threads[t].job)
    /\ threads' = Goto(t, "count")
    /\ UNCHANGED <<calls, max_concurrent_migrations, processes, tasks, now, result, pre,
                   streams>>

\* line 109
T_count(t) ==
    /\ threads # NoThreads /\ threads[t].pc = "count"
    /\ threads' = [threads EXCEPT
                      ![t].active_count = Cardinality(list_active_migrations(migrations)),
                      ![t].pc = "admit"]
    /\ UNCHANGED <<calls, max_concurrent_migrations, migrations, processes, tasks, now,
                   result, pre, streams>>

\* lines 110-142
T_admit(t) ==
    /\ threads # NoThreads /\ threads[t].pc = "admit"
    /\ IF threads[t].active_count > max_concurrent_migrations
       THEN /\ migrations' = Reject(migrations, threads[t].job)
            /\ threads' = Raise(t, "LimitExceeded")
            /\ UNCHANGED tasks
       ELSE /\ tasks' = create_task(tasks, LowestFree, threads[t].job)
            /\ threads' = Raise(t, "ok")
            /\ UNCHANGED migrations
    /\ UNCHANGED <<calls, max_concurrent_migrations, processes, now, result, pre, streams>>

\* the requests that bring the registry to where the two calls meet it
Setup ==
    /\ threads = NoThreads
    /\ \/ \E n \in LifecycleTables : create_migration(n)
       \/ \E j \in JobIds : start_migration(j, TRUE)
       \/ \E j \in JobIds : pause_migration(j)
       \/ \E j \in JobIds : cancel_migration(j, KilledCode, 0)

NextThreads ==
    \/ Setup
    \/ \E a, b \in JobIds, fa, fb \in BOOLEAN : Begin(a, b, fa, fb)
    \/ \E t \in Threads : T_lookup(t)
    \/ \E t \in Threads : T_connections(t)
    \/ \E t \in Threads : T_mark(t)
    \/ \E t \in Threads : T_count(t)
    \/ \E t \in Threads : T_admit(t)

SpecThreads == Init /\ [][NextThreads]_vars

Next ==
    \/ \E n \in LifecycleTables : create_migration(n)
    \/ \E j \in JobIds, found \in BOOLEAN : start_migration(j, found)
    \/ \E j \in JobIds, found \in BOOLEAN : resume_migration(j, found)
    \/ \E j \in JobIds : pause_migration(j)
    \/ \E j \in JobIds : \E in \in CancelInputs(j) : cancel_migration(j, in[1], in[2])
    \/ \E s \in Slots, how \in SpawnOutcomes : Spawn(s, how)
    \* the error events of this child carry a text
    \/ \E s \in Slots : ReadError(s, ErrStderr)
    \/ \E s \in Slots, c \in ExitCodes : ProcessExit(s, c)
    \/ \E s \in Slots : Finalize(s)

Spec == Init /\ [][Next]_vars

\* the first job, started once, and the run of it
Lifecycle ==
    \/ migrations = <<>> /\ \E n \in 0..MaxTables : create_migration(n)
    \/ \E j \in DOMAIN migrations : StatusOf(j) = QUEUED /\ start_migration(j, TRUE)
    \/ \E j \in DOMAIN migrations : pause_migration(j)
    \/ \E j \in DOMAIN migrations : \E in \in CancelInputs(j) :
          cancel_migration(j, in[1], in[2])
    \/ \E s \in Slots, how \in SpawnOutcomes : Spawn(s, how)
    \/ \E s \in Slots, c \in ExitCodes : ProcessExit(s, c)
    \/ \E s \in Slots : Finalize(s)

\* what the child writes, line by line
NextStreams ==
    \/ Lifecycle
    \/ \E s \in Slots, data \in Events : ReadProgress(s, data)
    \/ \E s \in Slots, r \in Readers, kind \in BadLines : ReadBadLine(s, r, kind)
    \/ \E s \in Slots, msg \in StderrMessages : ReadError(s, msg)

SpecStreams == Init /\ [][NextStreams]_vars

\* the snapshots of a job and the generators that take them from its queue
NextSubscribers ==
    \/ Lifecycle
    \/ \E s \in Slots : ReadProgress(s, Bare("table_complete"))
    \/ \E u \in Subscribers, j \in JobIds : subscribe_progress(u, j)
    \/ \E u \in Subscribers : Take(u)
    \/ \E u \in Subscribers : Timeout(u)

SpecSubscribers == Init /\ [][NextSubscribers]_vars

\* datetime.now() moves on
Tick ==
    /\ now < MaxClock
    /\ now' = now + 1
    /\ UNCHANGED <<calls, max_concurrent_migrations, migrations, processes, tasks,
                   result, threads, pre, streams>>

\* the lines of a child that counts the rows of a table of MaxRows rows, and
\* the final line
ClockEvents ==
    {data \in ProgressEvents :
        /\ data.table = "t1"
        /\ data.percentage = 0
        /\ data.total_rows = MaxRows
        /\ data.rows_migrated \in 0..MaxRows}
    \cup {Bare("complete")}

\* the first job while time passes: started, paused and resumed, and the
\* estimates made of what its child reports
NextClock ==
    \/ Lifecycle
    \/ \E j \in DOMAIN migrations : StatusOf(j) = PAUSED /\ resume_migration(j, TRUE)
    \/ Tick
    \/ \E s \in Slots, data \in ClockEvents : ReadProgress(s, data)

SpecClock == Init /\ [][NextClock]_vars

\* the job of the configuration modal, and the dashboard of the application
NextApp ==
    \/ Lifecycle
    \/ refresh_dashboard

SpecApp == Init /\ [][NextApp]_vars

\* a new engine, the staging listing, and the command of one start whose
\* connections and selection are drawn at the beginning
InitCalls ==
    /\ max_concurrent_migrations \in Ceilings
    /\ migrations = <<>>
    /\ processes = [j \in JobIds |-> NoPid]
    /\ tasks = [s \in 1..MaxTasks |-> NoTask]
    /\ now = 0
    /\ result = NoResult
    /\ threads = NoThreads
    /\ pre = <<>>
    /\ progress = <<>>
    /\ queues = <<>>
    /\ published = <<>>
    /\ subscribers = [u \in Subscribers |-> NoSubscription]
    /\ staging_areas = NoStagingAreas
    /\ dashboard = NewDashboard
    /\ call \in Calls

NextCalls ==
    \/ create_subprocess_exec
    \/ \E run \in CliRuns : list_staging_areas(run)

SpecCalls == InitCalls /\ [][NextCalls]_vars

\* the event loop runs every task it was given, and every child process
\* comes to an end
Fairness ==
    \A s \in 1..MaxTasks :
        /\ WF_vars(\E how \in SpawnOutcomes : Spawn(s, how))
        /\ WF_vars(\E c \in ExitCodes : ProcessExit(s, c))
        /\ WF_vars(Finalize(s))

SpecFair == Spec /\ Fairness

\* the consumer of a generator goes on iterating it, and the one-second
\* timeout of wait_for fires when nothing arrives
SubscriberFairness ==
    \A u \in Subscribers : WF_vars(Take(u)) /\ WF_vars(Timeout(u))

SpecSubscribersFair == SpecSubscribers /\ Fairness /\ SubscriberFairness

\* ============================================================ properties
RunningJobs == {j \in DOMAIN migrations : StatusOf(j) = RUNNING}

AliveAfter(j) == {s \in DOMAIN tasks' : tasks'[s].job = j /\ tasks'[s].pc = "reading"}

\* C1: at most one child process is alive for any job at any time.
C1_AtMostOneProcessPerJob ==
    \A j \in JobIds : Cardinality(AliveProcesses(j)) <= 1

LaunchFails == \E s \in Slots, how \in SpawnOutcomes \ {"spawned"} : Spawn(s, how)

\* C2: once a job's status is Completed, Failed or Cancelled, no request and
\* no process exit changes its status again.
C2_TerminatesOnce ==
    [][\A j \in DOMAIN migrations :
          (StatusOf(j) \in {COMPLETED, FAILED, CANCELLED} /\ ~LaunchFails)
              => migrations'[j].status = StatusOf(j)]_vars

\* C3: in every reachable state the number of Running jobs is at most the
\* configured ceiling.
C3_RunningWithinCeiling ==
    Cardinality(RunningJobs) <= max_concurrent_migrations

\* the ceiling is filled and a further job waits in the queue
C3_Witness ==
    /\ max_concurrent_migrations >= 1
    /\ Cardinality(RunningJobs) = max_concurrent_migrations
    /\ \E j \in DOMAIN migrations : StatusOf(j) = QUEUED

BothDone == threads # NoThreads /\ \A t \in Threads : threads[t].pc = "done"

Sequential(first, second) ==
    LET r1 == start_result(pre, threads[first].job, threads[first].found)
        r2 == start_result(r1.migs, threads[second].job, threads[second].found)
    IN /\ threads[first].out = r1.out
       /\ threads[second].out = r2.out
       /\ migrations = r2.migs

C5_StartsSerializable ==
    BothDone => Sequential(1, 2) \/ Sequential(2, 1)

\* both calls went through every statement and both were admitted
C5_Witness ==
    /\ BothDone
    /\ \A t \in Threads : threads[t].out = "ok"
    /\ \E t \in Threads : pre[threads[t].job].status = PAUSED

\* C6: cancelling a Running job leaves it Cancelled with a completion
\* timestamp no later than the grace period after the request, whatever the
\* child process does.
C6_CancelRunningReachesCancelled ==
    [][\A j \in JobIds : \A in \in CancelInputs(j) :
          (/\ Known(j)
           /\ StatusOf(j) = RUNNING
           /\ cancel_migration(j, in[1], in[2]))
              => (/\ migrations'[j].status = CANCELLED
                  /\ migrations'[j].completed_at # NoTime
                  /\ migrations'[j].completed_at <= now + GracePeriod
                  /\ result' = Outcome("cancel", j, "ok"))]_vars

\* a job was just cancelled while its child process goes on running
C6_Witness ==
    \E j \in DOMAIN migrations :
        /\ result = Outcome("cancel", j, "ok")
        /\ StatusOf(j) = CANCELLED
        /\ migrations[j].completed_at # NoTime
        /\ AliveProcesses(j) # {}

\* C7: cancel on a job with a live process terminates (or kills) it: once
\* cancel has returned no process of the job is alive.
C7_CancelLeavesNoProcess ==
    [][\A j \in JobIds : \A in \in CancelInputs(j) :
          (/\ Known(j)
           /\ AliveProcesses(j) # {}
           /\ cancel_migration(j, in[1], in[2]))
              => AliveAfter(j) = {}]_vars

\* C8: a successful pause of a Running job whose process was spawned sends
\* that process an interrupt signal and makes the job Paused.
C8_PauseSendsInterrupt ==
    [][\A j \in JobIds :
          (/\ Known(j)
           /\ StatusOf(j) = RUNNING
           /\ AliveProcesses(j) # {}
           /\ pause_migration(j))
              => (/\ migrations'[j].status = PAUSED
                  /\ \A s \in AliveProcesses(j) : "SIGINT" \in tasks'[s].sig)]_vars

\* C9: a Paused job stays Paused until resume or cancel is requested (the
\* exit of the interrupted process does not complete or fail it), and an
\* admitted resume makes it Running again.
C9_PausedUntilResumeOrCancel ==
    [][\A j \in DOMAIN migrations :
          /\ (StatusOf(j) = PAUSED /\ migrations'[j].status # PAUSED /\ ~LaunchFails)
                => \/ \E found \in BOOLEAN : resume_migration(j, found)
                   \/ \E in \in CancelInputs(j) : cancel_migration(j, in[1], in[2])
          /\ (StatusOf(j) = PAUSED /\ result' = Outcome("start", j, "ok")
                /\ resume_migration(j, TRUE))
                => migrations'[j].status = RUNNING]_vars

\* C10: start (and resume) on a job that is neither Queued nor Paused fails
\* with the invalid-state error, spawns nothing and leaves the job unchanged.
C10_StartInvalidStateRejected ==
    [][\A j \in JobIds : \A found \in BOOLEAN :
          (/\ Known(j)
           /\ StatusOf(j) \notin {QUEUED, PAUSED}
           /\ start_migration(j, found) \/ resume_migration(j, found))
              => (/\ result' = Outcome("start", j, "InvalidState")
                  /\ migrations' = migrations
                  /\ tasks' = tasks
                  /\ processes' = processes)]_vars

\* a start was just refused on a job that is running, or over
C10_Witness ==
    \E j \in DOMAIN migrations :
        /\ result = Outcome("start", j, "InvalidState")
        /\ StatusOf(j) \in {RUNNING, COMPLETED, FAILED, CANCELLED}

\* C11: pause on a job that is not Running fails with the invalid-state
\* error, sends no signal and leaves the job (and every other) unchanged.
C11_PauseInvalidStateRejected ==
    [][\A j \in JobIds :
          (/\ Known(j)
           /\ StatusOf(j) # RUNNING
           /\ pause_migration(j))
              => (/\ result' = Outcome("pause", j, "InvalidState")
                  /\ migrations' = migrations
                  /\ tasks' = tasks
                  /\ processes' = processes)]_vars

\* a pause was just refused on a job that is queued, paused or over
C11_Witness ==
    \E j \in DOMAIN migrations :
        /\ result = Outcome("pause", j, "InvalidState")
        /\ StatusOf(j) \in {QUEUED, PAUSED, COMPLETED, FAILED, CANCELLED}

\* C12: start, pause and cancel with an unknown job id fail with the
\* not-found error, start of a known job whose connections the connection
\* manager does not know fails with an error (the connection error when the
\* job is startable); none of them changes a job or creates a task; get on
\* an unknown id returns None.
NothingHappens == migrations' = migrations /\ tasks' = tasks /\ processes' = processes

C12_NotFoundRejected ==
    [][\A j \in JobIds :
          /\ (~Known(j) /\ \E found \in BOOLEAN : start_migration(j, found))
                => result' = Outcome("start", j, "KeyError") /\ NothingHappens
          /\ (~Known(j) /\ pause_migration(j))
                => result' = Outcome("pause", j, "KeyError") /\ NothingHappens
          /\ (~Known(j) /\ \E in \in CancelInputs(j) : cancel_migration(j, in[1], in[2]))
                => result' = Outcome("cancel", j, "KeyError") /\ NothingHappens
          /\ (Known(j) /\ start_migration(j, FALSE))
                => /\ result' = Outcome("start", j,
                                  IF StatusOf(j) \in {QUEUED, PAUSED}
                                  THEN "ConnectionNotFound" ELSE "InvalidState")
                   /\ NothingHappens
          /\ ~Known(j) => get_migration(j) = NoMigration]_vars

\* a start was just refused for its connections while another id is unknown
C12_Witness ==
    /\ \E j \in DOMAIN migrations : result = Outcome("start", j, "ConnectionNotFound")
    /\ \E j \in JobIds : ~Known(j) /\ get_migration(j) = NoMigration

\* C13: when the supervised process has exited the job becomes Completed on
\* return code 0 and Failed otherwise; when it fails and no error event was
\* read from stderr during that run, the error is the synthesized exit-code
\* message (jobs that carry the error of a failed launch set aside).
C13_ExitSetsStatusAndError ==
    [][\A s \in Slots :
          Finalize(s) =>
              LET j == tasks[s].job IN
              IF tasks[s].code = 0
              THEN migrations'[j].status = COMPLETED
              ELSE /\ migrations'[j].status = FAILED
                   /\ (~tasks[s].erred /\ migrations[j].error \in {NoError, ErrStderr})
                         => migrations'[j].error = ErrExitCode]_vars

\* C14: when the executable is missing or cannot be spawned the job becomes
\* Failed with an error message that says so and a completion timestamp; the
\* start request that scheduled the launch had returned without an error and
\* the failure is raised to no caller.
C14_LaunchFailureRecorded ==
    [][/\ \A s \in Slots, how \in SpawnOutcomes \ {"spawned"} :
             (tasks[s].pc = "created" /\ Spawn(s, how)) =>
                 LET j == tasks[s].job IN
                 /\ migrations'[j].status = FAILED
                 /\ migrations'[j].error =
                        (IF how = "FileNotFoundError" THEN ErrNotFound ELSE ErrException)
                 /\ migrations'[j].completed_at # NoTime
                 /\ result' = NoResult
       /\ \A j \in JobIds, found \in BOOLEAN :
             (tasks' # tasks /\ start_migration(j, found))
                 => result' = Outcome("start", j, "ok")]_vars

\* a job failed because the executable was not found
C14_Witness ==
    \E j \in DOMAIN migrations :
        /\ StatusOf(j) = FAILED
        /\ migrations[j].error = ErrNotFound
        /\ migrations[j].completed_at # NoTime
        /\ result = NoResult

\* C15: a job that was started (a _run_migration task exists for it)
\* eventually is Completed, Failed or Cancelled, given that its task is run
\* and its process exits or fails to launch; and no job ever leaves the
\* registry that get and list read.
Started(j) == \E s \in 1..MaxTasks : tasks[s].job = j /\ tasks[s].pc # "none"

C15_StartedJobsTerminate ==
    /\ \A j \in JobIds :
          Started(j) ~> (Known(j) /\ StatusOf(j) \in {COMPLETED, FAILED, CANCELLED})
    /\ [][\A j \in JobIds : Known(j) => get_migration(j)' # NoMigration]_vars

\* a started job completed and is still in the registry
C15_Witness ==
    \E j \in DOMAIN migrations :
        /\ StatusOf(j) = COMPLETED
        /\ migrations[j].started_at # NoTime
        /\ get_migration(j) = migrations[j]

\* C16: in every snapshot stored on a job (a published snapshot is the one
\* stored at that moment) completed_tables <= total_tables.
C16_CompletedTablesBounded ==
    \A j \in DOMAIN progress :
        progress[j].completed_tables <= progress[j].total_tables

\* C17: in every snapshot stored on a job in which total_rows > 0,
\* migrated_rows <= total_rows.
C17_MigratedRowsBounded ==
    \A j \in DOMAIN progress :
        progress[j].total_rows > 0
            => progress[j].migrated_rows <= progress[j].total_rows

\* C18: while a job is Paused, Completed, Failed or Cancelled no step
\* changes its progress snapshot.
C18_SnapshotFrozenAfterRunning ==
    [][\A j \in DOMAIN migrations :
          StatusOf(j) \in {PAUSED, COMPLETED, FAILED, CANCELLED}
              => progress'[j] = progress[j]]_vars

\* C19: reading a line that is no event, on stdout or stderr, changes no
\* job's status and does not end the run that read it.
C19_BadLineAbsorbed ==
    [][\A s \in Slots, r \in Readers, kind \in BadLines :
          (tasks[s].pc = "reading" /\ ReadBadLine(s, r, kind))
              => (/\ \A j \in DOMAIN migrations : migrations'[j].status = StatusOf(j)
                  /\ tasks'[s] = tasks[s])]_vars

\* C20: when one of two generators that wait on the same job takes from the
\* queue a snapshot published after both had subscribed, the snapshot is
\* still there for the other.
Range(q) == {q[i] : i \in DOMAIN q}

C20_EverySubscriberGetsEverySnapshot ==
    [][\A u, v \in Subscribers :
          (/\ u # v
           /\ subscribers[u].pc = "waiting" /\ subscribers[v].pc = "waiting"
           /\ subscribers[u].job = subscribers[v].job
           /\ queues[subscribers[v].job] # <<>>
           /\ Head(queues[subscribers[v].job]) > subscribers[u].since
           /\ Head(queues[subscribers[v].job]) > subscribers[v].since
           /\ Take(v))
              => Head(queues[subscribers[v].job]) \in Range(queues'[subscribers[u].job])
                     \cup Range(subscribers'[u].received)]_vars

\* C21: a subscription is finite. A generator that waits on a job whose
\* status is outside {Running, Queued} ends once the queue has nothing more
\* for it (unless the job is running or queued again before that), and no
\* generator ends while its job is Running or Queued.
C21_SubscriptionFinite ==
    /\ \A u \in Subscribers :
          (/\ subscribers[u].pc = "waiting"
           /\ get_migration(subscribers[u].job).status \notin {RUNNING, QUEUED})
          ~> (\/ subscribers[u].pc = "ended"
              \/ get_migration(subscribers[u].job).status \in {RUNNING, QUEUED})
    /\ [][\A u \in Subscribers :
            subscribers[u].pc = "waiting" /\ subscribers'[u].pc = "ended"
            => get_migration(subscribers[u].job).status \notin {RUNNING, QUEUED}]_vars

C21_Witness ==
    \E u \in Subscribers :
        /\ subscribers[u].pc = "ended"
        /\ subscribers[u].received # <<>>
        /\ Known(subscribers[u].job)
        /\ StatusOf(subscribers[u].job) \in {PAUSED, COMPLETED, FAILED, CANCELLED}

\* C22: the argument list of the spawned process is a function of the
\* non-secret fields: connections that differ from those of the call in
\* nothing but the passwords give the same argument list, no argument is a
\* password, and the passwords sit in the two environment entries, which
\* are the only entries that differ from os.environ.
SecretNames == {"SNOWMIGRATE_SOURCE_PASSWORD", "SNOWMIGRATE_TARGET_PASSWORD"}

C22_PasswordsOnlyInEnvironment ==
    call.op = "create_subprocess_exec" =>
        /\ \A s \in SourceConnections, t \in SnowflakeConnections :
              /\ [s EXCEPT !.password = call.source_conn.password] = call.source_conn
              /\ [t EXCEPT !.password = call.target_conn.password] = call.target_conn
              => start_args(s, t, call.migration) = call.args
        /\ \A i \in DOMAIN call.args : call.args[i] \notin Passwords
        /\ call.env["SNOWMIGRATE_SOURCE_PASSWORD"] = call.source_conn.password
        /\ call.env["SNOWMIGRATE_TARGET_PASSWORD"] = call.target_conn.password
        /\ DOMAIN call.env = DOMAIN call.environ \cup SecretNames
        /\ \A k \in DOMAIN call.env \ SecretNames : call.env[k] = call.environ[k]

C22_Witness ==
    /\ call.op = "create_subprocess_exec"
    /\ call.source_conn.password # call.target_conn.password
    /\ Len(call.args) = 27
    /\ call.args[7] = "5432"
    /\ call.args[13] = "public.orders,crm.leads"

\* C30: a listing that fails (the executable is missing, it exits with an
\* error, or its output is no JSON, no JSON object or holds a member that is
\* no staging area) returns two available staging areas, one S3 and one
\* internal, and raises nothing.
ListingFailed(run) ==
    \/ ~run.found
    \/ run.returncode # 0
    \/ run.stdout.json \in {"invalid", "array"}
    \/ /\ "staging_areas" \in DOMAIN run.stdout
       /\ \E i \in DOMAIN run.stdout.staging_areas :
             \/ "id" \notin DOMAIN run.stdout.staging_areas[i]
             \/ run.stdout.staging_areas[i].type \notin {"s3", "adls", "gcs", "internal"}

C30_ListingFailureGivesDefaults ==
    call.op = "list_staging_areas" /\ ~call.cached /\ ListingFailed(call.cli) =>
        /\ Len(call.areas) = 2
        /\ {call.areas[i].type : i \in 1..2} = {"s3", "internal"}
        /\ \A i \in 1..2 : call.areas[i].available
        /\ staging_areas.areas = call.areas

C30_Witness ==
    /\ call.op = "list_staging_areas"
    /\ ~call.cached
    /\ call.cli.found
    /\ call.cli.returncode = 0
    /\ call.cli.stdout.json = "object"
    /\ ListingFailed(call.cli)
    /\ Len(call.areas) = 2

\* C23: create_migration with n table selections returns a job that no
\* earlier job shares its id with, that is Queued, whose snapshot is zero
\* but for total_tables = n, and that get_migration and list_migrations
\* return from then on.
C23_CreateReturnsQueuedJob ==
    [][\A n \in 0..MaxTables :
          create_migration(n) =>
              LET j == result'.id IN
              /\ j \notin list_migrations(migrations)
              /\ j \in list_migrations(migrations')
              /\ migrations'[j].status = "queued"
              /\ migrations'[j].started_at = NoTime
              /\ migrations'[j].completed_at = NoTime
              /\ progress'[j].total_tables = n
              /\ progress'[j].completed_tables = 0
              /\ progress'[j].current_table = NoTable
              /\ progress'[j].current_table_progress = 0
              /\ progress'[j].total_rows = 0
              /\ progress'[j].migrated_rows = 0
              /\ progress'[j].rows_per_second.rows = 0
              /\ progress'[j].eta_seconds = NoEta
              /\ \A i \in list_migrations(migrations) :
                    migrations'[i] = migrations[i] /\ progress'[i] = progress[i]]_vars

C23_Witness ==
    /\ result.op = "create"
    /\ result.id \in list_migrations(migrations)
    /\ list_migrations(migrations) \ {result.id} # {}
    /\ get_migration(result.id).status = QUEUED
    /\ progress[result.id].total_tables = 1

C27_TerminalHasCompletedAt ==
    \A j \in DOMAIN migrations :
        StatusOf(j) \in {COMPLETED, FAILED, CANCELLED} =>
            migrations[j].completed_at # NoTime

C27_Witness ==
    \E i, j \in DOMAIN migrations :
        /\ StatusOf(i) = COMPLETED
        /\ StatusOf(j) = FAILED
        /\ migrations[i].completed_at # NoTime
        /\ migrations[j].completed_at # NoTime

\* C28: every step that takes a job into Completed, Failed or Cancelled
\* leaves the job without a process id.
C28_TerminalTransitionClearsProcessId ==
    [][\A j \in DOMAIN migrations :
          /\ StatusOf(j) \notin {COMPLETED, FAILED, CANCELLED}
          /\ migrations'[j].status \in {COMPLETED, FAILED, CANCELLED}
          => migrations'[j].cli_process_id = NoPid]_vars

\* C25: the percentage of a snapshot is migrated_rows / total_rows * 100 when
\* total_rows > 0, otherwise completed_tables / total_tables * 100 when
\* total_tables > 0, otherwise 0; and with total_rows = 0 it is the same
\* whatever migrated_rows is.
SamePercent(a, b) == a.x * b.y = b.x * a.y

C25_PercentageByRowsThenTables ==
    \A j \in DOMAIN progress :
        LET p == progress[j] IN
        /\ SamePercent(percentage(p),
                       IF p.total_rows > 0 THEN Percent(p.migrated_rows, p.total_rows)
                       ELSE IF p.total_tables > 0
                            THEN Percent(p.completed_tables, p.total_tables)
                            ELSE Percent(0, 1))
        /\ p.total_rows = 0 =>
              \A r \in -1..MaxRows :
                  SamePercent(percentage([p EXCEPT !.migrated_rows = r]), percentage(p))

\* C26: after every applied event the snapshot's ETA is (total_rows -
\* migrated_rows) / (migrated_rows / elapsed) rounded down when
\* migrated_rows > 0, the job has a start timestamp and elapsed > 0, and is
\* unset otherwise.
C26_EtaFromRateOrUnset ==
    [][\A s \in Slots, data \in ClockEvents :
          published' # published /\ ReadProgress(s, data) =>
              LET j == tasks[s].job
                  q == progress'[j]
                  elapsed == now - migrations[j].started_at
              IN  IF /\ q.migrated_rows > 0
                     /\ migrations[j].started_at # NoTime
                     /\ elapsed > 0
                  THEN q.eta_seconds =
                          ((q.total_rows - q.migrated_rows) * elapsed) \div q.migrated_rows
                  ELSE q.eta_seconds = NoEta]_vars

\* C29: resuming a job that was started before leaves its start timestamp
\* as the first start set it.
C29_ResumeKeepsStartedAt ==
    [][\A j \in DOMAIN migrations :
          /\ StatusOf(j) = PAUSED
          /\ migrations[j].started_at # NoTime
          /\ resume_migration(j, TRUE)
          => migrations'[j].started_at = migrations[j].started_at]_vars

\* C31: a start request for a startable job whose connections resolve is
\* refused for the ceiling exactly when the jobs that are Running or Queued,
\* the job being started among them, are more than the ceiling; Paused and
\* terminal jobs are not counted.
RunningOrQueuedWith(j) ==
    {i \in DOMAIN migrations : i = j \/ StatusOf(i) \in {RUNNING, QUEUED}}

C31_RejectedIffRunningOrQueuedExceed ==
    [][\A j \in JobIds :
          (/\ Known(j)
           /\ StatusOf(j) \in {QUEUED, PAUSED}
           /\ start_migration(j, TRUE))
              => (result'.out = "LimitExceeded"
                    <=> Cardinality(RunningOrQueuedWith(j)) > max_concurrent_migrations)]_vars

\* C32: a stdout line that is an object of a type other than progress,
\* table_complete and complete (or of no type) leaves the stored snapshot as
\* it is and puts nothing on the queue of the job.
C32_UnknownTypeIgnored ==
    [][\A s \in Slots :
          published' # published /\ ReadProgress(s, Bare("other"))
              => /\ progress' = progress
                 /\ queues' = queues]_vars

\* C33: an error event read from stderr sets the error message of the job
\* and nothing else: status, timestamps, snapshot and queue are as before,
\* and the run and its child go on as they were.
C33_ErrorEventSetsErrorOnly ==
    [][\A s \in Slots, msg \in StderrMessages :
          (migrations' # migrations \/ tasks' # tasks) /\ ReadError(s, msg)
              => LET j == tasks[s].job IN
                 /\ migrations'[j].error = msg
                 /\ migrations'[j].status = migrations[j].status
                 /\ migrations'[j].started_at = migrations[j].started_at
                 /\ migrations'[j].completed_at = migrations[j].completed_at
                 /\ \A i \in DOMAIN migrations \ {j} : migrations'[i] = migrations[i]
                 /\ progress' = progress
                 /\ queues' = queues
                 /\ \A t \in Slots : /\ tasks'[t].pc = tasks[t].pc
                                     /\ tasks'[t].readers = tasks[t].readers]_vars

C33_Witness ==
    \E s \in Slots :
        /\ tasks[s].pc = "reading"
        /\ tasks[s].erred
        /\ StatusOf(tasks[s].job) = RUNNING
        /\ migrations[tasks[s].job].error = ErrStderr
        /\ published[tasks[s].job] > 0

\* C34: a run applies every event of its child before it sets the status
\* to Completed or Failed; so a run that has set the status (and whose try
\* block is left) applies no event afterwards.
C34_NoEventAfterRunSetStatus ==
    [][\A s \in Slots :
          (\/ progress' # progress
           \/ published' # published
           \/ migrations' # migrations)
          /\ (\/ \E msg \in StderrMessages : ReadError(s, msg)
              \/ \E data \in Events : ReadProgress(s, data))
              => tasks[s].pc # "abandoned"]_vars

\* C35 as it was claimed, for every number of tables: a snapshot without
\* row counts whose completed_tables has come to total_tables (for a job
\* with n tables, after n table_complete events) has percentage 100.
C35_AllTablesCompleteIsHundred ==
    \A j \in DOMAIN progress :
        /\ progress[j].total_rows = 0
        /\ progress[j].completed_tables = progress[j].total_tables
        => SamePercent(percentage(progress[j]), Percent(1, 1))

\* C35, amended: table_complete adds one to completed_tables and clears the
\* current table, complete sets completed_tables = total_tables and
\* migrated_rows = total_rows, both leaving the other counts alone; and a
\* snapshot without row counts whose completed_tables has come to
\* total_tables has percentage 100 if the job has at least one table (and 0
\* if it has none).
C35_EstimatorRules ==
    /\ [][\A s \in Slots :
            LET j == tasks[s].job IN
            /\ (published' # published /\ ReadProgress(s, Bare("table_complete")))
                  => /\ progress'[j].completed_tables = progress[j].completed_tables + 1
                     /\ progress'[j].current_table = NoTable
                     /\ progress'[j].total_tables = progress[j].total_tables
                     /\ progress'[j].total_rows = progress[j].total_rows
                     /\ progress'[j].migrated_rows = progress[j].migrated_rows
            /\ (published' # published /\ ReadProgress(s, Bare("complete")))
                  => /\ progress'[j].completed_tables = progress[j].total_tables
                     /\ progress'[j].migrated_rows = progress[j].total_rows
                     /\ progress'[j].total_tables = progress[j].total_tables
                     /\ progress'[j].total_rows = progress[j].total_rows]_vars
    /\ [](\A j \in DOMAIN progress :
            /\ progress[j].total_rows = 0
            /\ progress[j].completed_tables = progress[j].total_tables
            => IF progress[j].total_tables >= 1
               THEN SamePercent(percentage(progress[j]), Percent(1, 1))
               ELSE SamePercent(percentage(progress[j]), Percent(0, 1)))

C35_Witness ==
    \E j \in DOMAIN progress :
        /\ progress[j].total_tables = MaxTables
        /\ progress[j].completed_tables = MaxTables
        /\ published[j] = MaxTables
        /\ progress[j].current_table = NoTable
        /\ progress[j].total_rows = 0
        /\ progress[j].migrated_rows = 0
        /\ SamePercent(percentage(progress[j]), Percent(1, 1))

\* C36: a job created and started through the configuration modal is a job
\* of the engine the dashboard lists, pauses, resumes and cancels with.
C36_DashboardEngineHasTheJob ==
    \A j \in list_migrations(migrations) :
        migrations[j].started_at # NoTime =>
            /\ j \in list_migrations(dashboard.migrations)
            /\ result.op = "refresh" => j \in dashboard.rows

\* C37: a start request that is refused for the ceiling leaves the job as
\* it was but for its status, which is Queued: start timestamp, error and
\* process id are those of before, the snapshot is untouched, no task is
\* made and no other job changes.
C37_RejectedStartChangesStatusOnly ==
    [][\A j \in JobIds :
          (/\ Known(j)
           /\ start_migration(j, TRUE)
           /\ result'.out = "LimitExceeded")
              => /\ migrations' = [migrations EXCEPT ![j].status = QUEUED]
                 /\ progress' = progress
                 /\ tasks' = tasks
                 /\ processes' = processes]_vars

\* C38: a job whose status is Failed has an error message.
C38_FailedHasError ==
    \A j \in DOMAIN migrations :
        StatusOf(j) = FAILED => migrations[j].error # NoError

\* the snapshots of a job are numbered as they are published
Snapshots(n) == [i \in 1..n |-> i]

\* u is the one subscriber there is
Sole(u) == \A v \in Subscribers \ {u} : subscribers[v].pc = "idle"

\* C39: the one subscriber of a job, subscribed before the start, has been
\* handed every snapshot published for the job, in publication order, when
\* its subscription has ended.
C39_SoleSubscriberGetsEverySnapshot ==
    \A u \in Subscribers :
        (Sole(u) /\ subscribers[u].pc = "ended" /\ subscribers[u].early)
            => subscribers[u].received = Snapshots(published[subscribers[u].job])

\* C40: a job that is Queued, Running or Paused has no completion
\* timestamp.
C40_ActiveHasNoCompletionTime ==
    \A j \in DOMAIN migrations :
        StatusOf(j) \in {QUEUED, RUNNING, PAUSED} => migrations[j].completed_at = NoTime

C40_Witness ==
    \E j, k \in DOMAIN migrations :
        /\ StatusOf(j) = PAUSED
        /\ migrations[j].started_at # NoTime
        /\ migrations[j].completed_at = NoTime
        /\ StatusOf(k) \in {COMPLETED, FAILED, CANCELLED}
        /\ migrations[k].completed_at # NoTime
====
